---------------------------- MODULE Spec2Model ----------------------------
(***************************************************************************)
(* Verification model of two utilities of the test-automation suite and   *)
(* of the harness around them:                                             *)
(*   - RetryHelper (src/playwright.config.ts, lines 151-269): retry of a   *)
(*     fallible asynchronous operation with linear/exponential backoff;   *)
(*   - MCPContextManager (src/mcp/MCPContextManager.ts): the structured    *)
(*     event recorder of one test run;                                     *)
(*   - the fixtures and hooks (src/unnamed/part_015, src/mcp/MCPHooks.ts)  *)
(*     that create, fill, save and discard the recorders of the tests.     *)
(* Each has its own specification (RetrySpec; RecorderSpec, SnapshotSpec   *)
(* and ScenarioSpec; HarnessSpec); the variables of the other components   *)
(* keep their initial values.                                              *)
(***************************************************************************)
EXTENDS Integers, Sequences, FiniteSets, TLC

(***************************************************************************)
(* Bounds of the model.                                                    *)
(***************************************************************************)
\* largest maxRetries a caller passes
MaxRetriesBound == 4
\* number of recorder method calls made on one recorder
MaxCalls == 3
\* latest clock reading (ms after the recorder's construction)
MaxTime == 1
\* number of changes the holder of a snapshot makes to it
MaxEdits == 1
\* the clock reading (ms) at which the run starts
ClockStart == 7
\* largest timeout (ms) passed to measureApiResponseTime
MaxTimeout == 1
\* number of events the measured page delivers
MaxResponses == 3

(***************************************************************************)
(* RetryHelper: values.                                                    *)
(***************************************************************************)
\* marks an option or argument the caller did not pass (a string-valued one,
\* a number-valued one)
Absent == "absent"
AbsentNumber == 0 - 1

\* Error objects the operation can reject with (each a distinct object).
ErrorObjects == {"ErrA", "ErrB"}

\* A falsy, non-nullish value the operation can reject with (throw '').
EmptyString == "''"

\* Nullish rejection values (throw undefined / Promise.reject()).
Nullish == {"undefined"}

\* JavaScript truthiness of a rejection value, as `lastError || ...` sees it.
Truthy(v) == v \in ErrorObjects

\* new Error('Retry failed: Unknown error'), line 216
UnknownError == "Error: Retry failed: Unknown error"

\* what evaluating `error.message` on a nullish value throws, line 171
TypeErrorNoMessage == "TypeError: cannot read 'message'"

\* values the operation fulfils with
SuccessValues == {"v1", "v2"}

\* base delays (ms) a caller passes
Delays == {0, 100}

\* DEFAULT_RETRY_OPTIONS, lines 166-173
DefaultMaxRetries == 3
DefaultDelay == 1000
DEFAULT_RETRY_OPTIONS ==
    [maxRetries |-> DefaultMaxRetries, delay |-> DefaultDelay,
     backoff |-> "linear", onRetry |-> "default"]

\* default parameters of the convenience methods, lines 245-246 and 260-261
ConvenienceMaxRetries == 3
ConvenienceDelay == 1000

VARIABLES
    \* ---- RetryHelper.retry: one call ----
    entry,        \* the entry point called
    options,      \* the RetryOptions object handed to retry
    fnRejections, \* the values the operation fn can reject with
    attempt,      \* the loop variable `attempt`
    lastError,    \* the local `lastError` ("null" until a catch)
    delayMs,      \* the local `delay` computed in the catch block
    pc,           \* where the call is
    result,       \* the value returned or the error thrown
    trace         \* what happened so far, in order

retryVars == <<entry, options, fnRejections, attempt, lastError, delayMs, pc,
               result, trace>>

VARIABLES
    \* ---- one MCPContextManager ----
    mcpConfig,         \* this.config
    context,           \* this.context
    currentStepNumber, \* this.currentStepNumber
    contextFilePath,   \* this.contextFilePath
    \* ---- its environment and its caller ----
    files,             \* the file system: path -> content of the file
    saves,             \* number of saveContext calls that have returned
    written,           \* number of writeFileSync calls that succeeded
    callLimit,         \* number of method calls the caller makes
    \* ---- the object getContext returned, in the hands of its holder ----
    snapshot,          \* the properties that are the snapshot's own (none:
                       \* getContext was not called)
    shared,            \* the properties whose value is still the very object
                       \* the recorder's context holds
    edits,             \* number of changes the holder made to the snapshot
    now,               \* the clock (ms)
    issued,            \* the values startStep has returned, in call order
    raised,            \* the exception the last call let escape ("none")
    calls              \* number of method calls made so far

\* what no method of the recorder changes
recorderFixed == <<mcpConfig, contextFilePath, callLimit>>

\* what only saveContext changes
storage == <<files, saves, written>>

\* what only getContext, updateMetadata and the snapshot's holder change
held == <<snapshot, shared, edits>>

recorderVars == <<recorderFixed, held, context, currentStepNumber, storage, now, issued,
                  raised, calls>>

(***************************************************************************)
(* The test harness: the tests of a run, the worker processes that run     *)
(* them, the recorders they create and the registry of each process.       *)
(***************************************************************************)
VARIABLES
    workerOf,          \* the worker process that runs each test
    phase,             \* each test's position in its lifecycle
    verdict,           \* testInfo.status of each test, once its body ended
    thrown,            \* the exception that failed each test's fixture or hook
    recorders,         \* the MCPContextManager objects, in order of creation
    registry,          \* mcpContexts of each process: entries <<test id, recorder>>
    storageDir,        \* the directories of ensureStorageDirectory exist
    apiDir,            \* the directory of ensureApiDirectory exists
    tornDown           \* the global teardown has run

harnessVars == <<workerOf, phase, verdict, thrown, recorders, registry,
                 storageDir, apiDir, tornDown>>

(***************************************************************************)
(* ApiCapture and the apiCapture fixture of one test.                      *)
(***************************************************************************)
VARIABLES
    usesFixture,         \* the test asks for the apiCapture fixture
    hookRan,             \* test.beforeEach has run
    fixtureCapture,      \* the ApiCapture object the apiCapture fixture created
                         \* (0: its set-up part has not run)
    capturePhase,        \* "test", "teardown" (of the fixture) or "done"
    captures,            \* the ApiCapture objects, in order of creation
    apiCaptureInstances, \* the Map of part_015 line 24: test id -> instance
    apiWrites,           \* the contents written to the test's file, in order
    apiSaveCalls,        \* number of saveApiCalls calls
    inFlight,            \* the requests of the page that await their response
    requestCount         \* number of requests the page has made

captureVars == <<usesFixture, hookRan, fixtureCapture, capturePhase, captures,
                 apiCaptureInstances, apiWrites, apiSaveCalls, inFlight,
                 requestCount>>

(***************************************************************************)
(* UserStorage (data/users.json) and the register tests that save to it.   *)
(***************************************************************************)
VARIABLES
    usersFile,           \* the users array in data/users.json
    reg,                 \* each running register test: its position, its
                         \* local variables and the outcomes of its saveUser calls
    completed            \* the users of the saveUser calls that returned, in order

storeVars == <<usersFile, reg, completed>>

(***************************************************************************)
(* PerformanceHelper.measureApiResponseTime: one call.                     *)
(***************************************************************************)
VARIABLES
    measureTimeout,      \* the parameter timeout of the call
    measureStartTime,    \* the local startTime of the call
    resolved,            \* the local flag resolved
    timerFired,          \* the callback of setTimeout has run
    promiseState,        \* the promise returned: "pending" or "fulfilled"
    promiseValue,        \* the value it is fulfilled with
    resolveCalls,        \* number of calls of resolve
    responseLog          \* the events so far: responses and the timeout

perfVars == <<measureTimeout, measureStartTime, resolved, timerFired, promiseState, promiseValue,
              resolveCalls, responseLog>>

utilVars == <<captureVars, storeVars, perfVars>>

vars == <<retryVars, recorderVars, harnessVars, utilVars>>

(***************************************************************************)
(* RetryHelper: pure helpers.                                              *)
(***************************************************************************)
RECURSIVE Pow2(_)
\* Math.pow(2, e) for an integer e >= 0
Pow2(e) == IF e <= 0 THEN 1 ELSE 2 * Pow2(e - 1)

\* calculateDelay with the exponent off by one
calculateDelay_offByOne(k, baseDelay, backoff) ==
    IF backoff = "exponential" THEN baseDelay * Pow2(k) ELSE baseDelay * k

\* RetryHelper.calculateDelay, lines 222-231
calculateDelay(k, baseDelay, backoff) ==
    IF backoff = "exponential" THEN baseDelay * Pow2(k - 1) ELSE baseDelay * k

\* { ...DEFAULT_RETRY_OPTIONS, ...options }: a key of options that is present
\* overrides the default, line 194
MergeOptions(defaults, opts) ==
    [maxRetries |-> IF opts.maxRetries = AbsentNumber THEN defaults.maxRetries
                    ELSE opts.maxRetries,
     delay      |-> IF opts.delay = AbsentNumber THEN defaults.delay ELSE opts.delay,
     backoff    |-> IF opts.backoff = Absent THEN defaults.backoff ELSE opts.backoff,
     onRetry    |-> IF opts.onRetry = Absent THEN defaults.onRetry ELSE opts.onRetry]

config == MergeOptions(DEFAULT_RETRY_OPTIONS, options)

\* the convenience methods with their strategies swapped
OptionsOf_swapped(e, maxRetriesArg, delayArg, backoffArg, onRetryArg) ==
    IF e = "retry"
    THEN [maxRetries |-> maxRetriesArg, delay |-> delayArg,
          backoff |-> backoffArg, onRetry |-> onRetryArg]
    ELSE [maxRetries |-> IF maxRetriesArg = AbsentNumber THEN ConvenienceMaxRetries
                         ELSE maxRetriesArg,
          delay      |-> IF delayArg = AbsentNumber THEN ConvenienceDelay ELSE delayArg,
          backoff    |-> IF e = "retryWithExponentialBackoff" THEN "linear"
                         ELSE "exponential",
          onRetry    |-> Absent]

\* the options object the entry point builds from its arguments:
\* retry passes the caller's object through; the convenience methods build
\* {maxRetries, delay, backoff} with their parameter defaults, lines 243-268
OptionsOf(e, maxRetriesArg, delayArg, backoffArg, onRetryArg) ==
    IF e = "retry"
    THEN [maxRetries |-> maxRetriesArg, delay |-> delayArg,
          backoff |-> backoffArg, onRetry |-> onRetryArg]
    ELSE [maxRetries |-> IF maxRetriesArg = AbsentNumber THEN ConvenienceMaxRetries
                         ELSE maxRetriesArg,
          delay      |-> IF delayArg = AbsentNumber THEN ConvenienceDelay ELSE delayArg,
          backoff    |-> IF e = "retryWithExponentialBackoff" THEN "exponential"
                         ELSE "linear",
          onRetry    |-> Absent]

\* the loop running its body at least once (a do-while)
LoopTest_atLeastOnce(k, maxRetries) == k = 1 \/ k <= maxRetries

\* the loop test `attempt <= config.maxRetries`, line 197
LoopTest(k, maxRetries) == k <= maxRetries

\* the retry test including the last attempt
AttemptsRemain_inclusive(k, maxRetries) == k <= maxRetries

\* `attempt < config.maxRetries`, line 203: attempts remain after attempt k
AttemptsRemain(k, maxRetries) == k < maxRetries

\* the observer told the number of the attempt to come
ObserverAttempt_next(k) == k + 1

\* the attempt index handed to config.onRetry, line 207
ObserverAttempt(k) == k

Event(type, k, val, ms) == [type |-> type, attempt |-> k, val |-> val, ms |-> ms]

(***************************************************************************)
(* MCPContextManager: values.                                              *)
(***************************************************************************)
\* a property that is undefined (string-valued, number-valued)
Undefined == "undefined"
UndefinedNumber == 0 - 1

\* the default configuration, lines 17-25 (initializeMCPContext passes none)
DefaultMaxContextSize == 1000
DefaultMCPConfig ==
    [enabled |-> TRUE, captureScreenshots |-> TRUE, captureApiCalls |-> TRUE,
     capturePerformance |-> TRUE, maxContextSize |-> DefaultMaxContextSize]

\* a test title, as the sequence of its characters
LoginTestTitle == <<"L", "o", "g", "i", "n", " ", "t", "e", "s", "t">>

\* the TestMetadata initializeMCPContext builds for a test started at time t,
\* src/mcp/MCPHooks.ts lines 20-31
MetadataOf(testId, testName, t) ==
    [testId |-> testId, testName |-> testName, startedAt |-> t,
     completedAt |-> UndefinedNumber, duration |-> UndefinedNumber,
     status |-> "started"]

InitialMetadata == MetadataOf("t1", LoginTestTitle, ClockStart)

\* character classes of the regular expressions of sanitizeFileName
UpperCase == {"A", "B", "L", "T"}
LowerCase == {"a", "b", "e", "g", "i", "l", "n", "o", "s", "t"}
Digits == {"1", "2"}
WhiteSpace == {" "}

\* String.prototype.toLowerCase on one character
ToLowerCase(c) ==
    CASE c = "A" -> "a" [] c = "B" -> "b" [] c = "L" -> "l" [] c = "T" -> "t"
      [] OTHER -> c

RECURSIVE CollapseWhiteSpace(_)
\* .replace(/\s+/g, '-'): every run of white space becomes one hyphen
CollapseWhiteSpace(chars) ==
    IF chars = <<>> THEN <<>>
    ELSE IF Head(chars) \in WhiteSpace
         THEN IF Len(chars) > 1 /\ chars[2] \in WhiteSpace
              THEN CollapseWhiteSpace(Tail(chars))
              ELSE <<"-">> \o CollapseWhiteSpace(Tail(chars))
         ELSE <<Head(chars)>> \o CollapseWhiteSpace(Tail(chars))

\* longest sanitized name, line 80
SanitizedMaxLength == 100

\* sanitizeFileName, lines 75-81
sanitizeFileName(fileName) ==
    LET kept == SelectSeq(fileName, LAMBDA c :
                    c \in UpperCase \cup LowerCase \cup Digits \cup WhiteSpace \cup {"-"})
        hyphened == CollapseWhiteSpace(kept)
        lowered == [i \in 1 .. Len(hyphened) |-> ToLowerCase(hyphened[i])]
    IN  SubSeq(lowered, 1, IF Len(lowered) < SanitizedMaxLength THEN Len(lowered)
                           ELSE SanitizedMaxLength)

\* the path the constructor builds at time t, lines 46-52:
\* <storagePath>/test-contexts/<sanitized name>-<timestamp>.json; the
\* timestamp is the ISO string of t, which names the millisecond
ContextFilePathOf(testName, t) ==
    [dir |-> "test-contexts", name |-> sanitizeFileName(testName), timestamp |-> t]

\* an object without keys, {}
EmptyMap == [key \in {} |-> 0]

\* obj[key] = value
MapSet(obj, key, value) ==
    [k \in (DOMAIN obj) \cup {key} |-> IF k = key THEN value ELSE obj[k]]

\* this.context after the constructor, lines 28-40
ContextOf(testMetadata) ==
    [metadata |-> testMetadata,
     steps |-> <<>>, apiCalls |-> <<>>, assertions |-> <<>>, errors |-> <<>>,
     screenshots |-> <<>>,
     performance |-> [pageLoadTimes |-> EmptyMap, apiResponseTimes |-> EmptyMap,
                      totalDuration |-> 0]]

InitialContext == ContextOf(InitialMetadata)

\* the tests of a run: the same test in two browser projects
Tests == {"t1", "t2"}
TitleOf(t) == LoginTestTitle
\* the worker processes and the process that runs the global hooks
Workers == {"w1", "w2"}
Processes == Workers \cup {"main"}

\* no test has started
HarnessQueued ==
    /\ phase = [t \in Tests |-> "queued"]
    /\ verdict = [t \in Tests |-> "none"]
    /\ thrown = [t \in Tests |-> "none"]
    /\ recorders = <<>>
    /\ registry = [p \in Processes |-> {}]
    /\ tornDown = FALSE

\* no ApiCapture exists and the page makes no request
CaptureIdle ==
    /\ usesFixture = FALSE
    /\ hookRan = FALSE
    /\ fixtureCapture = 0
    /\ capturePhase = "done"
    /\ captures = <<>>
    /\ apiCaptureInstances = EmptyMap
    /\ apiWrites = <<>>
    /\ apiSaveCalls = 0
    /\ inFlight = {}
    /\ requestCount = 0

\* the register tests that run in parallel: the test is defined twice in
\* src/tests/register.spec.ts
RegisterTests == {"r1", "r2"}

\* a register test that has not started
RegisterQueued ==
    [pc |-> "start", userSaved |-> FALSE, timestamp |-> 0, local |-> <<>>,
     log |-> <<>>]

\* users.json holds no user and no register test has started
StoreIdle ==
    /\ usersFile = <<>>
    /\ reg = [r \in RegisterTests |-> RegisterQueued]
    /\ completed = <<>>

\* the value null of a promise
Null == 0 - 2

\* measureApiResponseTime was called at the start of the run and nothing
\* has happened since
MeasureStarted(timeout) ==
    /\ measureTimeout = timeout
    /\ measureStartTime = ClockStart
    /\ resolved = FALSE
    /\ timerFired = FALSE
    /\ promiseState = "pending"
    /\ promiseValue = UndefinedNumber
    /\ resolveCalls = 0
    /\ responseLog = <<>>

\* the utilities outside the recorder and the retry helper are not in use
UtilIdle == CaptureIdle /\ StoreIdle /\ MeasureStarted(MaxTimeout)

\* the harness is not running
HarnessIdle ==
    /\ UtilIdle
    /\ HarnessQueued
    /\ workerOf = [t \in Tests |-> "w1"]
    /\ storageDir = TRUE
    /\ apiDir = TRUE

\* the recorder as the constructor leaves it, lines 12-53
RecorderConstructed ==
    /\ mcpConfig = DefaultMCPConfig
    /\ context = InitialContext
    /\ currentStepNumber = 0
    /\ contextFilePath = ContextFilePathOf(InitialMetadata.testName, ClockStart)
    /\ files = EmptyMap
    /\ saves = 0
    /\ written = 0
    /\ snapshot = EmptyMap
    /\ shared = {}
    /\ edits = 0
    /\ now = ClockStart
    /\ issued = <<>>
    /\ raised = "none"
    /\ calls = 0

\* a new recorder, used outside the harness, whose caller makes MaxCalls calls
RecorderIdle == RecorderConstructed /\ callLimit = MaxCalls /\ HarnessIdle

\* inputs of the calls
StepNumbers == 0 .. 2
Durations == {UndefinedNumber, 5}
ErrorMessages == {"network timeout", "boom"}
StepMetadata == {Undefined, "meta"}
ResponseStatuses == {200, 500}
Urls == {"/api/a"}

(***************************************************************************)
(* RetryHelper: the state after the entry point has built config and       *)
(* before the first loop test.                                             *)
(***************************************************************************)
RetryInit ==
    /\ entry \in {"retry", "retryWithExponentialBackoff", "retryWithLinearBackoff"}
    /\ \E m \in {AbsentNumber} \cup (0 .. MaxRetriesBound),
          d \in {AbsentNumber} \cup Delays :
          \/ /\ entry = "retry"
             /\ \E b \in {Absent, "linear", "exponential"},
                   o \in {Absent, "custom", "undefined"} :
                   options = OptionsOf(entry, m, d, b, o)
          \/ /\ entry # "retry"
             /\ options = OptionsOf(entry, m, d, Absent, Absent)
    /\ fnRejections = ErrorObjects \cup {EmptyString}
    /\ attempt = 1
    /\ lastError = "null"
    /\ delayMs = 0
    /\ pc = "loop"
    /\ result = "none"
    /\ trace = <<>>
    /\ RecorderIdle

(***************************************************************************)
(* RetryHelper.retry, lines 190-217, one action per stretch of code        *)
(* between two awaits.                                                     *)
(***************************************************************************)
\* line 197 (loop test true) and line 199: fn() is invoked
InvokeFn ==
    /\ pc = "loop"
    /\ LoopTest(attempt, config.maxRetries)
    /\ pc' = "awaitFn"
    /\ trace' = Append(trace, Event("invoke", attempt, "-", 0))
    /\ UNCHANGED <<entry, options, fnRejections, attempt, lastError, delayMs, result,
                   recorderVars, harnessVars, utilVars>>

\* line 199: the awaited promise fulfils, retry returns its value
FnFulfils ==
    /\ pc = "awaitFn"
    /\ \E v \in SuccessValues :
          /\ result' = v
          /\ trace' = Append(trace, Event("fulfilled", attempt, v, 0))
    /\ pc' = "returned"
    /\ UNCHANGED <<entry, options, fnRejections, attempt, lastError, delayMs,
                   recorderVars, harnessVars, utilVars>>

\* what a caller's observer throws
ObserverFailure == "Error: thrown by onRetry"

\* the observer config.onRetry(attempt, lastError): TRUE when it throws.
\* The default observer evaluates error.message (line 171); the caller's
\* observer "custom" records the call and returns, the caller's observer
\* "throws" throws.
OnRetryThrows(observer, err) ==
    \/ observer = "default" /\ err \in Nullish
    \/ observer = "throws"

\* the exception that leaves config.onRetry(attempt, lastError), line 207
ObserverError(observer) ==
    IF observer = "default" THEN TypeErrorNoMessage ELSE ObserverFailure

\* lines 200-212: the promise rejects; the catch block runs up to its await,
\* or falls through to the loop increment on the last attempt
FnRejects ==
    /\ pc = "awaitFn"
    /\ \E e \in fnRejections :
        LET rejected == Append(trace, Event("rejected", attempt, e, 0))
            d == calculateDelay(attempt, config.delay, config.backoff)
            hasObserver == config.onRetry # "undefined"
            observed == IF hasObserver
                        THEN Append(rejected,
                                    Event("onRetry", ObserverAttempt(attempt), e, 0))
                        ELSE rejected
        IN  /\ lastError' = e
            /\ IF AttemptsRemain(attempt, config.maxRetries)
               THEN IF hasObserver /\ OnRetryThrows(config.onRetry, e)
                    THEN /\ trace' = observed
                         /\ pc' = "thrown"
                         /\ result' = ObserverError(config.onRetry)
                         /\ UNCHANGED <<attempt, delayMs>>
                    ELSE /\ trace' = Append(observed, Event("wait", attempt, "-", d))
                         /\ pc' = "waiting"
                         /\ delayMs' = d
                         /\ UNCHANGED <<attempt, result>>
               ELSE /\ trace' = rejected
                    /\ attempt' = attempt + 1
                    /\ pc' = "loop"
                    /\ UNCHANGED <<delayMs, result>>
    /\ UNCHANGED <<entry, options, fnRejections, recorderVars, harnessVars, utilVars>>

\* line 211 and 237: the timer of wait(delay) fires; the loop increments
WaitElapsed ==
    /\ pc = "waiting"
    /\ trace' = Append(trace, Event("resumed", attempt, "-", delayMs))
    /\ attempt' = attempt + 1
    /\ pc' = "loop"
    /\ UNCHANGED <<entry, options, fnRejections, lastError, delayMs, result,
                   recorderVars, harnessVars, utilVars>>

\* the last error wrapped in a new error
ThrownValue_wrapped(err) == IF err = "null" THEN UnknownError ELSE "Error: wraps an error"

\* line 216: lastError || new Error('Retry failed: Unknown error')
ThrownValue(err) == IF err # "null" /\ Truthy(err) THEN err ELSE UnknownError

\* line 197 (loop test false) and line 216
ThrowLast ==
    /\ pc = "loop"
    /\ ~LoopTest(attempt, config.maxRetries)
    /\ result' = ThrownValue(lastError)
    /\ pc' = "thrown"
    /\ UNCHANGED <<entry, options, fnRejections, attempt, lastError, delayMs, trace,
                   recorderVars, harnessVars, utilVars>>

RetryStep == InvokeFn \/ FnFulfils \/ FnRejects \/ WaitElapsed \/ ThrowLast

RetryNext == RetryStep

RetrySpec == RetryInit /\ [][RetryNext]_vars

(***************************************************************************)
(* RetryHelper.retry with an observer that can throw: the caller's         *)
(* observer throws, or the default observer is handed a nullish rejection  *)
(* value.                                                                  *)
(***************************************************************************)
ObserverInit ==
    /\ entry = "retry"
    /\ \E m \in {AbsentNumber} \cup (0 .. MaxRetriesBound),
          d \in {AbsentNumber} \cup Delays,
          o \in {Absent, "throws"} :
          options = OptionsOf(entry, m, d, Absent, o)
    /\ fnRejections = ErrorObjects \cup Nullish
    /\ attempt = 1
    /\ lastError = "null"
    /\ delayMs = 0
    /\ pc = "loop"
    /\ result = "none"
    /\ trace = <<>>
    /\ RecorderIdle

ObserverNext == RetryStep

ObserverSpec == ObserverInit /\ [][ObserverNext]_vars

(***************************************************************************)
(* MCPContextManager: the methods, src/mcp/MCPContextManager.ts.           *)
(***************************************************************************)
\* Array.prototype.find(s => s.stepNumber === stepNumber): the index of the
\* first such step, 0 when there is none
FindStep(steps, stepNumber) ==
    IF \E i \in 1 .. Len(steps) : steps[i].stepNumber = stepNumber
    THEN CHOOSE i \in 1 .. Len(steps) :
            /\ steps[i].stepNumber = stepNumber
            /\ \A j \in 1 .. (i - 1) : steps[j].stepNumber # stepNumber
    ELSE 0

\* { ...step.metadata, ...metadata } for a metadata object that is given
MergeMetadata(old, new) == new

\* a call returns to its caller
Returned == /\ raised' = "none"
            /\ calls' = calls + 1

\* the counter read before it is incremented (a post-increment)
NextStepNumber_postIncrement(n) == n

\* this.currentStepNumber++, line 89
NextStepNumber(n) == n + 1

\* startStep, lines 86-102
startStep(action, description, metadata) ==
    /\ calls < callLimit
    /\ IF ~mcpConfig.enabled
       THEN /\ issued' = Append(issued, 0)
            /\ UNCHANGED <<context, currentStepNumber>>
       ELSE LET n == NextStepNumber(currentStepNumber)
                step == [stepNumber |-> n, action |-> action,
                         description |-> description, timestamp |-> now,
                         status |-> "in-progress", duration |-> UndefinedNumber,
                         error |-> Undefined, metadata |-> metadata]
            IN  /\ currentStepNumber' = n
                /\ context' = [context EXCEPT !.steps = Append(@, step)]
                /\ issued' = Append(issued, n)
    /\ Returned
    /\ UNCHANGED <<recorderFixed, held, storage, now, retryVars, harnessVars, utilVars>>

\* the step as completeStep leaves it, lines 112-116
CompletedStep(step, duration, metadata) ==
    [step EXCEPT !.status = "completed", !.duration = duration,
                 !.metadata = IF metadata # Undefined
                              THEN MergeMetadata(@, metadata) ELSE @]

\* completeStep, lines 107-118
completeStep(stepNumber, duration, metadata) ==
    /\ calls < callLimit
    /\ IF ~mcpConfig.enabled
       THEN UNCHANGED context
       ELSE LET i == FindStep(context.steps, stepNumber)
            IN  IF i # 0
                THEN context' = [context EXCEPT
                        !.steps[i] = CompletedStep(@, duration, metadata)]
                ELSE UNCHANGED context
    /\ Returned
    /\ UNCHANGED <<recorderFixed, held, currentStepNumber, storage, now, issued, retryVars, harnessVars, utilVars>>

\* the new entry put first (unshift)
ErrorsAfterAdd_unshift(errors, message, step, stack) ==
    IF ~mcpConfig.enabled THEN errors
    ELSE <<[message |-> message, stack |-> stack,
            timestamp |-> now, step |-> step]>> \o errors

\* the entry recorded without its step
ErrorsAfterAdd_noStep(errors, message, step, stack) ==
    IF ~mcpConfig.enabled THEN errors
    ELSE Append(errors, [message |-> message, stack |-> stack,
                         timestamp |-> now, step |-> UndefinedNumber])

\* the errors list after addError(message, step, stack), lines 194-203
ErrorsAfterAdd(errors, message, step, stack) ==
    IF ~mcpConfig.enabled THEN errors
    ELSE Append(errors, [message |-> message, stack |-> stack,
                         timestamp |-> now, step |-> step])

\* addError, lines 194-203
addError(message, step, stack) ==
    /\ calls < callLimit
    /\ context' = [context EXCEPT
            !.errors = ErrorsAfterAdd(@, message, step, stack)]
    /\ Returned
    /\ UNCHANGED <<recorderFixed, held, currentStepNumber, storage, now, issued, retryVars, harnessVars, utilVars>>

\* the step as failStep leaves it, lines 128-132
FailedStep(step, error, metadata) ==
    [step EXCEPT !.status = "failed", !.error = error,
                 !.metadata = IF metadata # Undefined
                              THEN MergeMetadata(@, metadata) ELSE @]

\* failStep, lines 123-136: the step, when found, is marked; addError is
\* called whether or not it was found
failStep(stepNumber, error, metadata) ==
    /\ calls < callLimit
    /\ IF ~mcpConfig.enabled
       THEN UNCHANGED context
       ELSE LET i == FindStep(context.steps, stepNumber)
                marked == IF i # 0
                          THEN [context.steps EXCEPT
                                   ![i] = FailedStep(@, error, metadata)]
                          ELSE context.steps
            IN  context' = [context EXCEPT
                    !.steps = marked,
                    !.errors = ErrorsAfterAdd(@, error, stepNumber, Undefined)]
    /\ Returned
    /\ UNCHANGED <<recorderFixed, held, currentStepNumber, storage, now, issued, retryVars, harnessVars, utilVars>>

\* addAPICall, lines 166-175
addAPICall(apiContext) ==
    /\ calls < callLimit
    /\ IF ~mcpConfig.enabled \/ ~mcpConfig.captureApiCalls
       THEN UNCHANGED context
       ELSE context' = [context EXCEPT
               !.apiCalls = Append(@, apiContext),
               !.performance.apiResponseTimes =
                   IF apiContext.duration # UndefinedNumber /\ apiContext.duration # 0
                   THEN MapSet(@, apiContext.url, apiContext.duration)
                   ELSE @]
    /\ Returned
    /\ UNCHANGED <<recorderFixed, held, currentStepNumber, storage, now, issued, retryVars, harnessVars, utilVars>>

\* addAssertion, lines 180-189
addAssertion(description, status, error) ==
    /\ calls < callLimit
    /\ IF ~mcpConfig.enabled
       THEN UNCHANGED context
       ELSE context' = [context EXCEPT
               !.assertions = Append(@, [description |-> description,
                                         status |-> status, timestamp |-> now,
                                         error |-> error])]
    /\ Returned
    /\ UNCHANGED <<recorderFixed, held, currentStepNumber, storage, now, issued, retryVars, harnessVars, utilVars>>

\* addScreenshot, lines 208-212
addScreenshot(screenshotPath) ==
    /\ calls < callLimit
    /\ IF ~mcpConfig.enabled \/ ~mcpConfig.captureScreenshots
       THEN UNCHANGED context
       ELSE context' = [context EXCEPT !.screenshots = Append(@, screenshotPath)]
    /\ Returned
    /\ UNCHANGED <<recorderFixed, held, currentStepNumber, storage, now, issued, retryVars, harnessVars, utilVars>>

\* recordPageLoadTime, lines 217-221
recordPageLoadTime(url, loadTime) ==
    /\ calls < callLimit
    /\ IF ~mcpConfig.enabled \/ ~mcpConfig.capturePerformance
       THEN UNCHANGED context
       ELSE context' = [context EXCEPT
               !.performance.pageLoadTimes = MapSet(@, url, loadTime)]
    /\ Returned
    /\ UNCHANGED <<recorderFixed, held, currentStepNumber, storage, now, issued, retryVars, harnessVars, utilVars>>

\* updateMetadata, lines 226-230, with the updates cleanupMCPContext passes
\* (src/mcp/MCPHooks.ts lines 72-75): {status, completedAt}. The context gets
\* a new metadata object; a snapshot keeps the object it was given.
updateMetadata(status, completedAt) ==
    /\ calls < callLimit
    /\ IF ~mcpConfig.enabled
       THEN UNCHANGED <<context, snapshot, shared>>
       ELSE /\ context' = [context EXCEPT !.metadata.status = status,
                                          !.metadata.completedAt = completedAt]
            /\ IF "metadata" \in shared
               THEN /\ snapshot' = [snapshot EXCEPT !.metadata = context.metadata]
                    /\ shared' = shared \ {"metadata"}
               ELSE UNCHANGED <<snapshot, shared>>
    /\ Returned
    /\ UNCHANGED <<recorderFixed, edits, currentStepNumber, storage, now, issued,
                   retryVars, harnessVars, utilVars>>

\* the total duration without the start time subtracted
StampedContext_fromZero(ctx, t) ==
    [ctx EXCEPT !.metadata.completedAt = t,
                !.metadata.duration = ctx.performance.totalDuration,
                !.performance.totalDuration = t]

\* the context as saveContext stamps it at time t, lines 247-253
StampedContext(ctx, t) ==
    [ctx EXCEPT !.metadata.completedAt = t,
                !.metadata.duration = ctx.performance.totalDuration,
                !.performance.totalDuration = t - ctx.metadata.startedAt]

\* a path built anew, from the time of the save
SavePath_perSave == ContextFilePathOf(context.metadata.testName, now)

\* the path saveContext writes to, line 257
SavePath == contextFilePath

\* the content of the recorder's file ("none" while there is no file)
contextFile ==
    IF contextFilePath \in DOMAIN files THEN files[contextFilePath] ELSE "none"

\* saveContext, lines 242-266: the context is stamped and written to the
\* file; writeFileSync may throw, which the catch block logs
saveContext ==
    /\ calls < callLimit
    /\ IF ~mcpConfig.enabled
       THEN UNCHANGED <<context, files, written>>
       ELSE LET stamped == StampedContext(context, now)
            IN  /\ context' = stamped
                /\ \E writeFails \in BOOLEAN :
                      IF writeFails
                      THEN UNCHANGED <<files, written>>
                      ELSE /\ files' = MapSet(files, SavePath, stamped)
                           /\ written' = written + 1
    /\ saves' = saves + 1
    /\ Returned
    /\ UNCHANGED <<recorderFixed, held, currentStepNumber, now, issued, retryVars, harnessVars, utilVars>>

\* time passes
Tick ==
    /\ now < ClockStart + MaxTime
    /\ now' = now + 1
    /\ UNCHANGED <<recorderFixed, held, context, currentStepNumber, storage, issued,
                   raised, calls, retryVars, harnessVars, utilVars>>

RecorderInit ==
    /\ RecorderIdle
    /\ entry = "retry"
    /\ options = OptionsOf("retry", AbsentNumber, AbsentNumber, Absent, Absent)
    /\ fnRejections = {}
    /\ attempt = 1
    /\ lastError = "null"
    /\ delayMs = 0
    /\ pc = "idle"
    /\ result = "none"
    /\ trace = <<>>

RecorderStep ==
    \/ startStep("click", "click the button", Undefined)
    \/ \E n \in StepNumbers, d \in Durations, m \in StepMetadata :
          completeStep(n, d, m)
    \/ \E n \in StepNumbers, e \in ErrorMessages, m \in StepMetadata :
          failStep(n, e, m)
    \/ \E n \in {UndefinedNumber, 1} : addError("boom", n, Undefined)
    \/ \E u \in Urls, st \in ResponseStatuses, d \in {0, 5} :
          addAPICall([url |-> u, method |-> "GET", responseStatus |-> st,
                      timestamp |-> now, duration |-> d])
    \/ \E st \in {"passed", "failed"} :
          addAssertion("title is shown", st,
                       IF st = "failed" THEN "boom" ELSE Undefined)
    \/ addScreenshot("screenshots/failure.png")
    \/ \E u \in Urls : recordPageLoadTime(u, 7)
    \/ \E st \in {"passed", "failed"} : updateMetadata(st, now)
    \/ saveContext
    \/ Tick

RecorderNext == RecorderStep

RecorderSpec == RecorderInit /\ [][RecorderNext]_vars

(***************************************************************************)
(* MCPContextManager with the default configuration and a caller that      *)
(* starts one step more than maxContextSize.                               *)
(***************************************************************************)
\* the retry helper is not running
RetryIdle ==
    /\ entry = "retry"
    /\ options = OptionsOf("retry", AbsentNumber, AbsentNumber, Absent, Absent)
    /\ fnRejections = {}
    /\ attempt = 1
    /\ lastError = "null"
    /\ delayMs = 0
    /\ pc = "idle"
    /\ result = "none"
    /\ trace = <<>>

StepLimitInit ==
    /\ RecorderConstructed
    /\ callLimit = DefaultMaxContextSize + 1
    /\ HarnessIdle
    /\ RetryIdle

StepLimitNext == startStep("click", "click the button", Undefined)

StepLimitSpec == StepLimitInit /\ [][StepLimitNext]_vars

(***************************************************************************)
(* MCPContextManager.getContext and the object it returns.  The object is  *)
(* a copy one level deep ({ ...this.context }): its properties hold the    *)
(* very arrays and objects the context holds, so a change made inside one  *)
(* of them through either reference is seen through the other, until the   *)
(* property of either side is assigned a new value.                        *)
(***************************************************************************)
\* getContext has returned
SnapshotTaken == DOMAIN snapshot # {}

\* the snapshot as its holder reads it
SnapshotView ==
    [f \in DOMAIN snapshot |-> IF f \in shared THEN context[f] ELSE snapshot[f]]

\* getContext, lines 235-237
getContext ==
    /\ calls < callLimit
    /\ ~SnapshotTaken
    /\ snapshot' = context
    /\ shared' = DOMAIN context
    /\ Returned
    /\ UNCHANGED <<recorderFixed, edits, context, currentStepNumber, storage, now,
                   issued, retryVars, harnessVars, utilVars>>

\* the holder changes property f of the snapshot from inside:
\* the object is the context's own while f is shared
SnapshotEdit(f, value) ==
    /\ SnapshotTaken
    /\ edits < MaxEdits
    /\ edits' = edits + 1
    /\ IF f \in shared
       THEN /\ context' = [context EXCEPT ![f] = value]
            /\ UNCHANGED snapshot
       ELSE /\ snapshot' = [snapshot EXCEPT ![f] = value]
            /\ UNCHANGED context
    /\ UNCHANGED <<recorderFixed, shared, currentStepNumber, storage, now, issued,
                   raised, calls, retryVars, harnessVars, utilVars>>

\* snapshot.errors.push(...)
SnapshotPushError ==
    SnapshotTaken /\
    SnapshotEdit("errors",
        Append(SnapshotView.errors, [message |-> "edited", stack |-> Undefined,
                                     timestamp |-> now, step |-> UndefinedNumber]))

\* snapshot.metadata.status = 'passed'
SnapshotSetStatus ==
    SnapshotTaken /\
    SnapshotEdit("metadata", [SnapshotView.metadata EXCEPT !.status = "passed"])

\* snapshot.steps = []: the property itself is assigned
SnapshotAssignSteps ==
    /\ SnapshotTaken
    /\ edits < MaxEdits
    /\ edits' = edits + 1
    /\ snapshot' = [snapshot EXCEPT !.steps = <<>>]
    /\ shared' = shared \ {"steps"}
    /\ UNCHANGED <<recorderFixed, context, currentStepNumber, storage, now, issued,
                   raised, calls, retryVars, harnessVars, utilVars>>

SnapshotNext ==
    \/ RecorderStep
    \/ getContext
    \/ SnapshotPushError
    \/ SnapshotSetStatus
    \/ SnapshotAssignSteps

SnapshotSpec == RecorderInit /\ [][SnapshotNext]_vars

(***************************************************************************)
(* MCPContextManager in one run: three steps are started, two of them are  *)
(* completed and one fails with 'network timeout', one API call with       *)
(* response status 500 is recorded, and the context is then saved.         *)
(***************************************************************************)
ScenarioSteps == 3
ScenarioCompleted == 2
\* the calls of the run: the steps started, each completed or failed, the
\* API call and the save
ScenarioCalls == ScenarioSteps + ScenarioSteps + 2

StepsWithStatus(status) ==
    {i \in 1 .. Len(context.steps) : context.steps[i].status = status}

ScenarioInit ==
    /\ RecorderConstructed
    /\ callLimit = ScenarioCalls
    /\ HarnessIdle
    /\ entry = "retry"
    /\ options = OptionsOf("retry", AbsentNumber, AbsentNumber, Absent, Absent)
    /\ fnRejections = {}
    /\ attempt = 1
    /\ lastError = "null"
    /\ delayMs = 0
    /\ pc = "idle"
    /\ result = "none"
    /\ trace = <<>>

ScenarioStartStep ==
    /\ saves = 0
    /\ Len(context.steps) < ScenarioSteps
    /\ startStep("click", "click the button", Undefined)

ScenarioCompleteStep ==
    /\ saves = 0
    /\ Cardinality(StepsWithStatus("completed")) < ScenarioCompleted
    /\ \E i \in StepsWithStatus("in-progress") :
          completeStep(context.steps[i].stepNumber, 5, Undefined)

ScenarioFailStep ==
    /\ saves = 0
    /\ StepsWithStatus("failed") = {}
    /\ \E i \in StepsWithStatus("in-progress") :
          failStep(context.steps[i].stepNumber, "network timeout", Undefined)

ScenarioAPICall ==
    /\ saves = 0
    /\ context.apiCalls = <<>>
    /\ addAPICall([url |-> "/api/a", method |-> "GET", responseStatus |-> 500,
                   timestamp |-> now, duration |-> 5])

ScenarioRecorded ==
    /\ Len(context.steps) = ScenarioSteps
    /\ Cardinality(StepsWithStatus("completed")) = ScenarioCompleted
    /\ Cardinality(StepsWithStatus("failed")) = ScenarioSteps - ScenarioCompleted
    /\ Len(context.apiCalls) = 1

ScenarioSave ==
    /\ saves = 0
    /\ ScenarioRecorded
    /\ saveContext

ScenarioNext ==
    \/ ScenarioStartStep
    \/ ScenarioCompleteStep
    \/ ScenarioFailStep
    \/ ScenarioAPICall
    \/ ScenarioSave
    \/ Tick

ScenarioSpec == ScenarioInit /\ [][ScenarioNext]_vars

(***************************************************************************)
(* RetryHelper: what the trace of one call shows.                          *)
(***************************************************************************)
(* The harness lifecycle of src/unnamed/part_015 and src/mcp/MCPHooks.ts:  *)
(* beforeEach, the mcpContext fixture, the test body, afterEach with       *)
(* cleanupMCPContext, and the global teardown.  A worker process runs one  *)
(* test at a time and has its own mcpContexts map; the processes share the *)
(* file system and the clock.                                              *)
(***************************************************************************)
\* the positions of a test that occupies its worker
Running == {"fixture", "body", "afterEach", "capture", "cleanup"}
\* the positions of a test whose lifecycle is over
Ended == {"done", "aborted"}

\* Map.prototype.set on a registry of entries <<key, value>>
RegistrySet(entries, key, value) ==
    {e \in entries : e[1] # key} \cup {<<key, value>>}

\* Map.prototype.get: the recorders stored under the key (none or one)
RegistryGet(entries, key) == {e[2] : e \in {x \in entries : x[1] = key}}

\* a delete that leaves the entry in place
RegistryDelete_kept(entries, key) == entries

\* Map.prototype.delete
RegistryDelete(entries, key) == {e \in entries : e[1] # key}

\* getMCPContext, src/mcp/MCPHooks.ts lines 60-62, in the test's process
getMCPContext(t) == RegistryGet(registry[workerOf[t]], t)

\* new MCPContextManager(testMetadata) at time t, lines 15-53
NewRecorder(testMetadata, t) ==
    [context |-> ContextOf(testMetadata),
     currentStepNumber |-> 0,
     contextFilePath |-> ContextFilePathOf(testMetadata.testName, t),
     saves |-> 0, written |-> 0, artifact |-> EmptyMap]

\* the recorder after startStep(action, description), lines 86-102
AfterStartStep(rec, action, description) ==
    LET n == NextStepNumber(rec.currentStepNumber)
    IN  [rec EXCEPT
            !.currentStepNumber = n,
            !.context.steps = Append(@,
                [stepNumber |-> n, action |-> action, description |-> description,
                 timestamp |-> now, status |-> "in-progress",
                 duration |-> UndefinedNumber, error |-> Undefined,
                 metadata |-> Undefined])]

\* the recorder after saveContext, lines 242-266
AfterSaveContext(rec, writeFails) ==
    LET stamped == StampedContext(rec.context, now)
    IN  [rec EXCEPT !.context = stamped,
                    !.saves = @ + 1,
                    !.written = IF writeFails THEN @ ELSE @ + 1,
                    !.artifact = IF writeFails THEN @ ELSE stamped]

\* a test leaves the queue of its worker and its beforeEach hook runs,
\* part_015 lines 91-100: an ApiCapture instance is started for it
beforeEach(t) ==
    /\ phase[t] = "queued"
    /\ \A u \in Tests : workerOf[u] = workerOf[t] => phase[u] \notin Running
    /\ phase' = [phase EXCEPT ![t] = "fixture"]
    /\ UNCHANGED <<workerOf, verdict, thrown, recorders, registry, storageDir,
                   apiDir, tornDown, retryVars, recorderVars, utilVars>>

\* the mcpContext fixture, part_015 lines 77-88: initializeMCPContext
\* (src/mcp/MCPHooks.ts lines 19-38) constructs the recorder, whose
\* ensureStorageDirectory (lines 58-70) creates the missing directories
\* outside any try, and stores it; then startStep('test-start', ...)
mcpContextFixture(t) ==
    /\ phase[t] = "fixture"
    /\ \E mkdirFails \in BOOLEAN :
          IF ~storageDir /\ mkdirFails
          THEN /\ thrown' = [thrown EXCEPT ![t] = "MCPContextManager: mkdir failed"]
               /\ verdict' = [verdict EXCEPT ![t] = "failed"]
               /\ phase' = [phase EXCEPT ![t] = "afterEach"]
               /\ UNCHANGED <<recorders, registry, storageDir>>
          ELSE LET rec == NewRecorder(MetadataOf(t, TitleOf(t), now), now)
                   r == Len(recorders) + 1
               IN  /\ storageDir' = TRUE
                   /\ recorders' = Append(recorders,
                          AfterStartStep(rec, "test-start", "Starting test"))
                   /\ registry' = [registry EXCEPT
                          ![workerOf[t]] = RegistrySet(@, t, r)]
                   /\ phase' = [phase EXCEPT ![t] = "body"]
                   /\ UNCHANGED <<thrown, verdict>>
    /\ UNCHANGED <<workerOf, apiDir, tornDown, retryVars, recorderVars, utilVars>>

\* the test body ends, passed or failed
testBody(t) ==
    /\ phase[t] = "body"
    /\ \E status \in {"passed", "failed"} :
          verdict' = [verdict EXCEPT ![t] = status]
    /\ phase' = [phase EXCEPT ![t] = "afterEach"]
    /\ UNCHANGED <<workerOf, thrown, recorders, registry, storageDir, apiDir,
                   tornDown, retryVars, recorderVars, utilVars>>

\* afterEach, part_015 lines 102-111: saveApiCalls of the instance beforeEach
\* started; its ensureApiDirectory (src/utils/UserStorage.ts lines 184-188,
\* 387) is outside the try, so a failing mkdirSync ends the hook here
afterEachSaveApiCalls(t) ==
    /\ phase[t] = "afterEach"
    /\ \E mkdirFails \in BOOLEAN :
          IF ~apiDir /\ mkdirFails
          THEN /\ thrown' = [thrown EXCEPT ![t] = "ApiCapture: mkdir failed"]
               /\ phase' = [phase EXCEPT ![t] = "aborted"]
               /\ UNCHANGED apiDir
          ELSE /\ apiDir' = TRUE
               /\ phase' = [phase EXCEPT ![t] = "capture"]
               /\ UNCHANGED thrown
    /\ UNCHANGED <<workerOf, verdict, recorders, registry, storageDir, tornDown,
                   retryVars, recorderVars, utilVars>>

\* afterEach, part_015 lines 113-137: the error of a failed test and, while
\* the page is open, the path of a failure screenshot are added
afterEachCapture(t) ==
    /\ phase[t] = "capture"
    /\ IF getMCPContext(t) # {} /\ verdict[t] = "failed"
       THEN \E r \in getMCPContext(t), pageClosed \in BOOLEAN :
               recorders' = [recorders EXCEPT
                   ![r].context.errors =
                       ErrorsAfterAdd(@, "test failed", UndefinedNumber, "stack"),
                   ![r].context.screenshots =
                       IF pageClosed THEN @
                       ELSE Append(@, [failure |-> t, timestamp |-> now])]
       ELSE UNCHANGED recorders
    /\ phase' = [phase EXCEPT ![t] = "cleanup"]
    /\ UNCHANGED <<workerOf, verdict, thrown, registry, storageDir, apiDir,
                   tornDown, retryVars, recorderVars, utilVars>>

\* cleanupMCPContext, src/mcp/MCPHooks.ts lines 67-87, called at part_015
\* line 139: the final status is set, the context saved, the entry deleted
cleanupMCPContext(t) ==
    /\ phase[t] = "cleanup"
    /\ IF getMCPContext(t) = {}
       THEN UNCHANGED <<recorders, registry, files>>
       ELSE \E r \in getMCPContext(t), writeFails \in BOOLEAN :
               LET updated == [recorders[r] EXCEPT
                       !.context.metadata.status =
                           IF verdict[t] = "passed" THEN "passed" ELSE "failed",
                       !.context.metadata.completedAt = now]
                   saved == AfterSaveContext(updated, writeFails)
               IN  /\ recorders' = [recorders EXCEPT ![r] = saved]
                   /\ files' = IF writeFails THEN files
                               ELSE MapSet(files, saved.contextFilePath,
                                           saved.context)
                   /\ registry' = [registry EXCEPT
                          ![workerOf[t]] = RegistryDelete(@, t)]
    /\ phase' = [phase EXCEPT ![t] = "done"]
    /\ UNCHANGED <<workerOf, verdict, thrown, storageDir, apiDir, tornDown,
                   recorderFixed, held, context, currentStepNumber, saves,
                   written, now, issued, raised, calls, retryVars, utilVars>>

\* the configured global teardown, src/mcp/global-teardown.ts (named at
\* src/playwright.config.ts line 148): it runs in the main process once
\* every test has ended, and only logs
globalTeardown ==
    /\ ~tornDown
    /\ \A t \in Tests : phase[t] \in Ended
    /\ tornDown' = TRUE
    /\ UNCHANGED <<workerOf, phase, verdict, thrown, recorders, registry,
                   storageDir, apiDir, retryVars, recorderVars, utilVars>>

HarnessInit ==
    /\ RecorderConstructed
    /\ callLimit = 0
    /\ UtilIdle
    /\ HarnessQueued
    /\ workerOf \in [Tests -> Workers]
    /\ storageDir \in BOOLEAN
    /\ apiDir \in BOOLEAN
    /\ entry = "retry"
    /\ options = OptionsOf("retry", AbsentNumber, AbsentNumber, Absent, Absent)
    /\ fnRejections = {}
    /\ attempt = 1
    /\ lastError = "null"
    /\ delayMs = 0
    /\ pc = "idle"
    /\ result = "none"
    /\ trace = <<>>

HarnessStep ==
    \/ \E t \in Tests : beforeEach(t)
    \/ \E t \in Tests : mcpContextFixture(t)
    \/ \E t \in Tests : testBody(t)
    \/ \E t \in Tests : afterEachSaveApiCalls(t)
    \/ \E t \in Tests : afterEachCapture(t)
    \/ \E t \in Tests : cleanupMCPContext(t)
    \/ globalTeardown
    \/ Tick

HarnessNext == HarnessStep

HarnessSpec == HarnessInit /\ [][HarnessNext]_vars

(***************************************************************************)
(* ApiCapture (src/utils/UserStorage.ts lines 176-435) in the life of one  *)
(* test: test.beforeEach, the apiCapture fixture, the test body in which   *)
(* the page makes requests and receives responses, test.afterEach and the  *)
(* tear-down part of the fixture (src/unnamed/part_015 lines 45-111).      *)
(* Playwright runs afterEach before it tears the test's fixtures down.     *)
(***************************************************************************)
\* number of requests the page makes
MaxRequests == 2

CaptureTest == "t1"
Methods == {"GET", "HEAD"}
\* allowedMethods, lines 228 and 271
AllowedMethods == {"GET", "POST", "PUT", "PATCH", "DELETE"}

\* the key under which the request listener stores the start time, line 240:
\* `${method}-${url}-${timestamp}-${Math.random()}`; the random part is
\* modelled by the ordinal of the request
RequestIdAtRequest(method, url, timestamp, random) ==
    <<method, url, timestamp, random>>

\* the key the response listener looks up, line 287: `${method}-${url}`
RequestIdAtResponse(method, url) == <<method, url>>

\* the calls a response can be attached to, line 283
Unanswered(apiCalls, method, url) ==
    {i \in 1 .. Len(apiCalls) :
        /\ apiCalls[i].url = url
        /\ apiCalls[i].method = method
        /\ apiCalls[i].status = UndefinedNumber}

\* the first of the candidates sorted by descending timestamp, line 284
\* (Array.prototype.sort is stable: of equal timestamps the earlier call
\* comes first); 0 when there is no candidate
MostRecent(apiCalls, candidates) ==
    IF candidates = {} THEN 0
    ELSE CHOOSE i \in candidates :
            \A j \in candidates :
                \/ apiCalls[i].timestamp > apiCalls[j].timestamp
                \/ apiCalls[i].timestamp = apiCalls[j].timestamp /\ i <= j

\* the ApiCapture object after the request listener ran, lines 223-263.
\* The field request of a call is not in the code: it names the request
\* that produced the call.
AfterRequest(capture, req) ==
    IF req.method \notin AllowedMethods THEN capture
    ELSE [capture EXCEPT
            !.requestStartTimes =
                MapSet(@, RequestIdAtRequest(req.method, req.url, now, req.id), now),
            !.apiCalls = Append(@,
                [url |-> req.url, method |-> req.method, timestamp |-> now,
                 status |-> UndefinedNumber, duration |-> UndefinedNumber,
                 request |-> req.id, answered |-> 0,
                 respondedAt |-> UndefinedNumber])]

\* the ApiCapture object after the response listener ran, lines 266-314.
\* The fields answered and respondedAt of a call are not in the code: they
\* name the request whose response filled the call, and when.
AfterResponse(capture, req, status) ==
    IF req.method \notin AllowedMethods THEN capture
    ELSE LET i == MostRecent(capture.apiCalls,
                             Unanswered(capture.apiCalls, req.method, req.url))
             requestId == RequestIdAtResponse(req.method, req.url)
             startTime == IF requestId \in DOMAIN capture.requestStartTimes
                          THEN capture.requestStartTimes[requestId] ELSE 0
             duration == IF startTime # 0 THEN now - startTime ELSE UndefinedNumber
         IN  IF i = 0 THEN capture
             ELSE [capture EXCEPT
                     !.apiCalls[i].status = status,
                     !.apiCalls[i].duration = duration,
                     !.apiCalls[i].answered = req.id,
                     !.apiCalls[i].respondedAt = now]

\* new ApiCapture() followed by startCapture(page, testName), lines 218-221:
\* the array the listeners fill is stored in the object's map
NewCapture == [apiCalls |-> <<>>, stored |-> TRUE, requestStartTimes |-> EmptyMap]

\* what saveApiCalls reads, line 389: this.apiCalls.get(testName) || []
CallsToSave(capture) == IF capture.stored THEN capture.apiCalls ELSE <<>>

\* the body of the test runs
InBody ==
    /\ capturePhase = "test"
    /\ hookRan
    /\ usesFixture => fixtureCapture # 0

\* test.beforeEach, part_015 lines 91-100
captureBeforeEach ==
    /\ capturePhase = "test"
    /\ ~hookRan
    /\ hookRan' = TRUE
    /\ IF CaptureTest \notin DOMAIN apiCaptureInstances
       THEN /\ captures' = Append(captures, NewCapture)
            /\ apiCaptureInstances' = MapSet(apiCaptureInstances, CaptureTest,
                   [apiCapture |-> Len(captures) + 1, saved |-> FALSE])
       ELSE UNCHANGED <<captures, apiCaptureInstances>>
    /\ UNCHANGED <<usesFixture, fixtureCapture, capturePhase, apiWrites, apiSaveCalls,
                   inFlight, requestCount, retryVars, recorderVars, harnessVars,
                   storeVars, perfVars>>

\* the apiCapture fixture up to `await use`, part_015 lines 45-57
apiCaptureFixture ==
    /\ capturePhase = "test"
    /\ usesFixture
    /\ fixtureCapture = 0
    /\ fixtureCapture' = Len(captures) + 1
    /\ captures' = Append(captures, NewCapture)
    /\ apiCaptureInstances' = MapSet(apiCaptureInstances, CaptureTest,
           [apiCapture |-> Len(captures) + 1, saved |-> FALSE])
    /\ UNCHANGED <<usesFixture, hookRan, capturePhase, apiWrites, apiSaveCalls,
                   inFlight, requestCount, retryVars, recorderVars, harnessVars,
                   storeVars, perfVars>>

\* the page makes a request: the request listener of every ApiCapture runs
pageRequest ==
    /\ InBody
    /\ requestCount < MaxRequests
    /\ \E method \in Methods, url \in Urls :
          LET req == [id |-> requestCount + 1, method |-> method, url |-> url]
          IN  /\ captures' = [c \in DOMAIN captures |-> AfterRequest(captures[c], req)]
              /\ inFlight' = inFlight \cup {req}
    /\ requestCount' = requestCount + 1
    /\ UNCHANGED <<usesFixture, hookRan, fixtureCapture, capturePhase,
                   apiCaptureInstances, apiWrites, apiSaveCalls, retryVars,
                   recorderVars, harnessVars, storeVars, perfVars>>

\* the page receives the response of a request: the response listener of
\* every ApiCapture runs
pageResponse ==
    /\ InBody
    /\ \E req \in inFlight, status \in ResponseStatuses :
          /\ captures' = [c \in DOMAIN captures |->
                             AfterResponse(captures[c], req, status)]
          /\ inFlight' = inFlight \ {req}
    /\ UNCHANGED <<usesFixture, hookRan, fixtureCapture, capturePhase,
                   apiCaptureInstances, apiWrites, apiSaveCalls, requestCount,
                   retryVars, recorderVars, harnessVars,
                   storeVars, perfVars>>

\* the file after saveApiCalls of the capture, lines 386-417
WritesAfterSave(capture, writeFails) ==
    IF writeFails THEN apiWrites
    ELSE Append(apiWrites, [totalCalls |-> Len(CallsToSave(capture)),
                            apiCalls |-> CallsToSave(capture)])

\* test.afterEach, part_015 lines 102-111: an instance not yet saved is
\* saved, cleared and taken out of the Map
captureAfterEach ==
    /\ InBody
    /\ IF CaptureTest \in DOMAIN apiCaptureInstances
          /\ ~apiCaptureInstances[CaptureTest].saved
       THEN LET c == apiCaptureInstances[CaptureTest].apiCapture
            IN  /\ \E writeFails \in BOOLEAN :
                      apiWrites' = WritesAfterSave(captures[c], writeFails)
                /\ apiSaveCalls' = apiSaveCalls + 1
                /\ captures' = [captures EXCEPT ![c].stored = FALSE]
                /\ apiCaptureInstances' = EmptyMap
       ELSE UNCHANGED <<apiWrites, apiSaveCalls, captures, apiCaptureInstances>>
    /\ capturePhase' = IF usesFixture THEN "teardown" ELSE "done"
    /\ UNCHANGED <<usesFixture, hookRan, fixtureCapture, inFlight, requestCount,
                   retryVars, recorderVars, harnessVars,
                   storeVars, perfVars>>

\* the apiCapture fixture after `await use`, part_015 lines 59-71
apiCaptureTeardown ==
    /\ capturePhase = "teardown"
    /\ \E writeFails \in BOOLEAN :
          apiWrites' = WritesAfterSave(captures[fixtureCapture], writeFails)
    /\ captures' = [captures EXCEPT ![fixtureCapture].stored = FALSE]
    /\ apiSaveCalls' = apiSaveCalls + 1
    /\ apiCaptureInstances' = EmptyMap
    /\ capturePhase' = "done"
    /\ UNCHANGED <<usesFixture, hookRan, fixtureCapture, inFlight, requestCount,
                   retryVars, recorderVars, harnessVars,
                   storeVars, perfVars>>

CaptureInit ==
    /\ usesFixture \in BOOLEAN
    /\ hookRan = FALSE
    /\ fixtureCapture = 0
    /\ capturePhase = "test"
    /\ captures = <<>>
    /\ apiCaptureInstances = EmptyMap
    /\ apiWrites = <<>>
    /\ apiSaveCalls = 0
    /\ inFlight = {}
    /\ requestCount = 0
    /\ StoreIdle
    /\ MeasureStarted(MaxTimeout)
    /\ RecorderConstructed
    /\ callLimit = 0
    /\ HarnessQueued
    /\ workerOf = [t \in Tests |-> "w1"]
    /\ storageDir = TRUE
    /\ apiDir = TRUE
    /\ RetryIdle

CaptureNext ==
    \/ captureBeforeEach
    \/ apiCaptureFixture
    \/ pageRequest
    \/ pageResponse
    \/ captureAfterEach
    \/ apiCaptureTeardown
    \/ Tick

CaptureSpec == CaptureInit /\ [][CaptureNext]_vars

(***************************************************************************)
(* The register tests (src/tests/register.spec.ts) running in parallel     *)
(* worker processes, and UserStorage.saveUser (src/utils/UserStorage.ts    *)
(* lines 67-132), which reads users.json, pushes the user and writes the   *)
(* file back: two system calls, between which another process can run.     *)
(***************************************************************************)
\* the UserData a register test passes to saveUser, lines 33-37
UserOf(r) == [email |-> r, password |-> "secret", timestamp |-> reg[r].timestamp]

\* the entry saveUser builds, lines 73-111: an invalid timestamp is
\* replaced by the current time, and the date fields are derived from it
UserDataWithDate(userData) ==
    LET timestamp == IF userData.timestamp > 0 THEN userData.timestamp ELSE now
    IN  [email |-> userData.email, password |-> userData.password,
         timestamp |-> timestamp, createdAt |-> timestamp]

\* readUsers, lines 47-61
readUsers == usersFile

\* getLatestUser, lines 146-149 (Null: there is no user)
HasLatestUser == Len(readUsers) > 0
getLatestUser == readUsers[Len(readUsers)]

\* the positions at which a test is inside saveUser: before it reads, and
\* between its read and its write
BeforeRead == {"save", "catchSave", "finallySave"}
BeforeWrite == {"saveWrite", "catchSaveWrite", "finallySaveWrite"}
AfterRead(at) ==
    CASE at = "save" -> "saveWrite"
      [] at = "catchSave" -> "catchSaveWrite"
      [] at = "finallySave" -> "finallySaveWrite"
\* where the test goes on when saveUser has returned or thrown
AfterSave(at) ==
    CASE at = "saveWrite" -> "register"
      [] at = "catchSaveWrite" -> "finally"
      [] at = "finallySaveWrite" -> "done"

\* userSaved after a saveUser call: only the call before the registration
\* is followed by userSaved = true, line 38
UserSavedAfter(at, userSaved, fails) ==
    userSaved \/ (at = "saveWrite" /\ ~fails)

\* lines 13-29: the test starts (registrationTimestamp = Date.now()), and
\* maximizes and navigates, which can throw
registerNavigates(r) ==
    /\ reg[r].pc = "start"
    /\ \E throws \in BOOLEAN :
          reg' = [reg EXCEPT ![r].timestamp = now,
                             ![r].pc = IF throws THEN "catch" ELSE "save"]
    /\ UNCHANGED <<usersFile, completed, captureVars, perfVars, retryVars,
                   recorderVars, harnessVars>>

\* saveUser, lines 71-116: the file is read and the user pushed
saveUserReads(r) ==
    /\ reg[r].pc \in BeforeRead
    /\ reg' = [reg EXCEPT
           ![r].local = Append(readUsers, UserDataWithDate(UserOf(r))),
           ![r].pc = AfterRead(@)]
    /\ UNCHANGED <<usersFile, completed, captureVars, perfVars, retryVars,
                   recorderVars, harnessVars>>

\* saveUser, lines 118-131: the file is written, or writeFileSync throws
\* and saveUser rethrows; the test catches (lines 39, 67, 93)
saveUserWrites(r) ==
    /\ reg[r].pc \in BeforeWrite
    /\ \E fails \in BOOLEAN :
          /\ reg' = [reg EXCEPT
                 ![r].log = Append(@, IF fails THEN "failed" ELSE "ok"),
                 ![r].userSaved = UserSavedAfter(reg[r].pc, @, fails),
                 ![r].pc = AfterSave(@)]
          /\ IF fails
             THEN UNCHANGED <<usersFile, completed>>
             ELSE /\ usersFile' = reg[r].local
                  /\ completed' = Append(completed, UserDataWithDate(UserOf(r)))
    /\ UNCHANGED <<captureVars, perfVars, retryVars, recorderVars, harnessVars>>

\* lines 43-53: the registration flow, which can throw
registerRuns(r) ==
    /\ reg[r].pc = "register"
    /\ \E throws \in BOOLEAN :
          reg' = [reg EXCEPT ![r].pc = IF throws THEN "catch" ELSE "finally"]
    /\ UNCHANGED <<usersFile, completed, captureVars, perfVars, retryVars,
                   recorderVars, harnessVars>>

\* the catch block, lines 55-71
registerCatch(r) ==
    /\ reg[r].pc = "catch"
    /\ reg' = [reg EXCEPT
           ![r].pc = IF ~reg[r].userSaved THEN "catchSave" ELSE "finally"]
    /\ UNCHANGED <<usersFile, completed, captureVars, perfVars, retryVars,
                   recorderVars, harnessVars>>

\* the finally block, lines 72-97
registerFinally(r) ==
    /\ reg[r].pc = "finally"
    /\ reg' = [reg EXCEPT
           ![r].pc = IF ~reg[r].userSaved THEN "finallySave" ELSE "done"]
    /\ UNCHANGED <<usersFile, completed, captureVars, perfVars, retryVars,
                   recorderVars, harnessVars>>

StoreInit ==
    /\ StoreIdle
    /\ CaptureIdle
    /\ MeasureStarted(MaxTimeout)
    /\ RecorderConstructed
    /\ callLimit = 0
    /\ HarnessQueued
    /\ workerOf = [t \in Tests |-> "w1"]
    /\ storageDir = TRUE
    /\ apiDir = TRUE
    /\ RetryIdle

StoreNext ==
    \/ \E r \in RegisterTests : registerNavigates(r)
    \/ \E r \in RegisterTests : saveUserReads(r)
    \/ \E r \in RegisterTests : saveUserWrites(r)
    \/ \E r \in RegisterTests : registerRuns(r)
    \/ \E r \in RegisterTests : registerCatch(r)
    \/ \E r \in RegisterTests : registerFinally(r)
    \/ Tick

StoreSpec == StoreInit /\ [][StoreNext]_vars

(***************************************************************************)
(* PerformanceHelper.measureApiResponseTime (src/utils/PerformanceHelper.ts *)
(* lines 36-68): the promise, the response listener and the timer.  A      *)
(* response matches when its URL contains the pattern (lines 46-48).       *)
(***************************************************************************)
\* Date.now() - startTime with the clock reading instead of the elapsed time
ResponseTime_absolute(t, start) == t

\* line 52
ResponseTime(t, start) == t - start

\* resolve(value): a promise is settled by the first call only
StateAfterResolve(state) == "fulfilled"
ValueAfterResolve(state, value, v) == IF state = "pending" THEN v ELSE value

\* lines 44-57: the listener of 'response'
responseListener(matches) ==
    /\ Len(responseLog) < MaxResponses
    /\ responseLog' = Append(responseLog,
           [kind |-> "response", matches |-> matches, at |-> now])
    /\ IF matches /\ ~resolved
       THEN /\ resolved' = TRUE
            /\ resolveCalls' = resolveCalls + 1
            /\ promiseState' = StateAfterResolve(promiseState)
            /\ promiseValue' = ValueAfterResolve(promiseState, promiseValue,
                                   ResponseTime(now, measureStartTime))
       ELSE UNCHANGED <<resolved, resolveCalls, promiseState, promiseValue>>
    /\ UNCHANGED <<measureTimeout, measureStartTime, timerFired, captureVars,
                   storeVars, retryVars, recorderVars, harnessVars>>

\* lines 60-66: the callback of setTimeout, not before timeout ms have passed
timeoutCallback ==
    /\ ~timerFired
    /\ now - measureStartTime >= measureTimeout
    /\ timerFired' = TRUE
    /\ responseLog' = Append(responseLog,
           [kind |-> "timeout", matches |-> FALSE, at |-> now])
    /\ IF ~resolved
       THEN /\ resolved' = TRUE
            /\ resolveCalls' = resolveCalls + 1
            /\ promiseState' = StateAfterResolve(promiseState)
            /\ promiseValue' = ValueAfterResolve(promiseState, promiseValue, Null)
       ELSE UNCHANGED <<resolved, resolveCalls, promiseState, promiseValue>>
    /\ UNCHANGED <<measureTimeout, measureStartTime, captureVars, storeVars,
                   retryVars, recorderVars, harnessVars>>

MeasureInit ==
    /\ \E timeout \in 0 .. MaxTimeout : MeasureStarted(timeout)
    /\ CaptureIdle
    /\ StoreIdle
    /\ RecorderConstructed
    /\ callLimit = 0
    /\ HarnessQueued
    /\ workerOf = [t \in Tests |-> "w1"]
    /\ storageDir = TRUE
    /\ apiDir = TRUE
    /\ RetryIdle

MeasureNext ==
    \/ \E matches \in BOOLEAN : responseListener(matches)
    \/ timeoutCallback
    \/ Tick

MeasureSpec == MeasureInit /\ [][MeasureNext]_vars

(***************************************************************************)
EventsOf(type) == SelectSeq(trace, LAMBDA e : e.type = type)
Invocations == EventsOf("invoke")
Fulfilments == EventsOf("fulfilled")
Rejections  == EventsOf("rejected")
ObserverCalls == EventsOf("onRetry")
WaitsStarted == EventsOf("wait")
WaitsElapsed == EventsOf("resumed")

AttemptsOf(events) == [i \in 1 .. Len(events) |-> events[i].attempt]
ErrorsOf(events) == [i \in 1 .. Len(events) |-> events[i].val]
OneTo(m) == [i \in 1 .. m |-> i]

RECURSIVE SumMs(_)
SumMs(events) == IF events = <<>> THEN 0 ELSE Head(events).ms + SumMs(Tail(events))

\* the delay the specification prescribes after failed attempt k
SpecifiedDelay(k, baseDelay, backoff) ==
    IF backoff = "exponential" THEN baseDelay * (2 ^ (k - 1)) ELSE baseDelay * k

RECURSIVE SpecifiedTotal(_, _, _)
SpecifiedTotal(m, baseDelay, backoff) ==
    IF m = 0 THEN 0
    ELSE SpecifiedDelay(m, baseDelay, backoff) + SpecifiedTotal(m - 1, baseDelay, backoff)

HasObserver == config.onRetry # "undefined"
RetryEnded == pc \in {"returned", "thrown"}

(***************************************************************************)
(* C1. For maxRetries n >= 1, when the operation fails on attempts 1..k-1  *)
(* and succeeds on attempt k <= n, retry returns that success value, the   *)
(* operation has been invoked exactly k times, nothing happens after the   *)
(* success, and the observer (when one is configured) has been called      *)
(* exactly k-1 times, with the attempt indices 1, 2, ..., k-1 and the      *)
(* errors of those attempts. Retry never stops before that success: it     *)
(* gives up only when all n attempts have failed, and until it ends a      *)
(* next step is always possible.                                           *)
(***************************************************************************)
C1_SuccessAtAttemptK ==
    /\ Fulfilments # <<>> =>
          LET k == Fulfilments[1].attempt
          IN  /\ Len(Fulfilments) = 1
              /\ trace[Len(trace)] = Fulfilments[1]
              /\ pc = "returned"
              /\ result = Fulfilments[1].val
              /\ k \in 1 .. config.maxRetries
              /\ Len(Invocations) = k
              /\ AttemptsOf(Rejections) = OneTo(k - 1)
              /\ IF HasObserver
                 THEN /\ AttemptsOf(ObserverCalls) = OneTo(k - 1)
                      /\ ErrorsOf(ObserverCalls) = ErrorsOf(Rejections)
                 ELSE ObserverCalls = <<>>
    /\ pc = "returned" => Fulfilments # <<>>
    /\ (pc = "thrown" /\ config.maxRetries >= 1) =>
          Len(Rejections) = config.maxRetries
    /\ ~RetryEnded => ENABLED RetryStep

\* the operation fails twice and succeeds on the third and last attempt
C1_Witness ==
    /\ pc = "returned"
    /\ config.maxRetries = 3
    /\ config.onRetry = "custom"
    /\ Len(Rejections) = 2
    /\ Len(ObserverCalls) = 2

(***************************************************************************)
(* C2. For maxRetries n >= 1, an operation that fails on every attempt is  *)
(* invoked exactly n times, and retry rejects with the error object raised *)
(* by the n-th invocation itself: not a wrapper, not an earlier error.     *)
(***************************************************************************)
C2_LastErrorPropagated ==
    (pc = "thrown" /\ config.maxRetries >= 1) =>
        LET n == config.maxRetries
        IN  /\ Len(Invocations) = n
            /\ AttemptsOf(Rejections) = OneTo(n)
            /\ Fulfilments = <<>>
            /\ Rejections[n].val \in ErrorObjects => result = Rejections[n].val

\* all three attempts fail, the first with another error object than the last
C2_Witness ==
    /\ pc = "thrown"
    /\ config.maxRetries = 3
    /\ Len(Rejections) = 3
    /\ Rejections[1].val = "ErrA"
    /\ Rejections[3].val = "ErrB"
    /\ result = "ErrB"

(***************************************************************************)
(* C3. Retry never invents a synthetic error when at least one attempt was *)
(* executed: for every value the operation rejects with, when all attempts *)
(* fail retry rejects with the value thrown by the last attempt.           *)
(***************************************************************************)
C3_NoSyntheticError ==
    (pc = "thrown" /\ Len(Invocations) >= 1) =>
        /\ result = Rejections[Len(Rejections)].val
        /\ result # UnknownError

(***************************************************************************)
(* C4. With maxRetries = 0 retry never invokes the operation, never calls  *)
(* the observer and never waits; it does not return a value but fails with *)
(* the generic error.                                                      *)
(***************************************************************************)
C4_ZeroAttempts ==
    config.maxRetries = 0 =>
        /\ trace = <<>>
        /\ pc \in {"loop", "thrown"}
        /\ pc = "loop" => (ENABLED ThrowLast /\ ~ENABLED InvokeFn)
        /\ pc = "thrown" => result = UnknownError

C4_Witness == config.maxRetries = 0 /\ pc = "thrown" /\ result = UnknownError

(***************************************************************************)
(* C5. The delay waited after failed attempt k < maxRetries is             *)
(* delay * 2^(k-1) under exponential and delay * k under linear backoff,   *)
(* for every configured base delay; a wait follows each such failure, and  *)
(* the time that elapses is that delay, with no jitter and no cap.         *)
(***************************************************************************)
C5_DelayFormula ==
    /\ \A i \in 1 .. Len(WaitsStarted) :
          /\ WaitsStarted[i].attempt = i
          /\ i < config.maxRetries
          /\ WaitsStarted[i].ms = SpecifiedDelay(i, config.delay, config.backoff)
    /\ \A i \in 1 .. Len(WaitsElapsed) : WaitsElapsed[i] =
          Event("resumed", i, "-", SpecifiedDelay(i, config.delay, config.backoff))
    /\ pc = "waiting" =>
          delayMs = SpecifiedDelay(attempt, config.delay, config.backoff)
    /\ Len(WaitsStarted) =
          Cardinality({i \in 1 .. Len(Rejections) : i < config.maxRetries})

\* the third failed attempt of an exponential backoff of base 100 waits 400 ms
C5_Witness ==
    /\ config.backoff = "exponential"
    /\ config.delay = 100
    /\ Len(WaitsElapsed) = 3
    /\ WaitsElapsed[3].ms = 400

(***************************************************************************)
(* C6. For every failed attempt k < maxRetries the order is: attempt k     *)
(* fails, the observer is called exactly once with (k, the error just      *)
(* caught), the computed delay is waited, and only then attempt k+1        *)
(* starts. After the failure of the last attempt (k = maxRetries) neither  *)
(* the observer is called nor any delay waited before the error is thrown. *)
(***************************************************************************)
C6_EventOrder ==
    /\ \A i \in 1 .. Len(trace) :
          trace[i].type = "rejected" =>
             LET k == trace[i].attempt
                 w == IF HasObserver THEN i + 2 ELSE i + 1
             IN  IF k < config.maxRetries
                 THEN /\ HasObserver =>
                            /\ Len(trace) > i
                            /\ trace[i + 1] = Event("onRetry", k, trace[i].val, 0)
                      /\ Len(trace) >= w
                      /\ trace[w].type = "wait" /\ trace[w].attempt = k
                      /\ Len(trace) > w =>
                            /\ trace[w + 1].type = "resumed"
                            /\ trace[w + 1].ms = trace[w].ms
                      /\ Len(trace) > w + 1 => trace[w + 2] = Event("invoke", k + 1, "-", 0)
                 ELSE /\ i = Len(trace)
                      /\ pc \in {"loop", "thrown"}
    /\ \A i \in 1 .. Len(trace) :
          (trace[i].type = "invoke" /\ trace[i].attempt > 1) =>
             /\ i > 1
             /\ trace[i - 1].type = "resumed"
             /\ trace[i - 1].attempt = trace[i].attempt - 1
    /\ \A i, j \in 1 .. Len(trace) :
          (trace[i].type = "onRetry" /\ trace[j].type = "onRetry"
             /\ trace[i].attempt = trace[j].attempt) => i = j
    /\ \A i \in 1 .. Len(trace) :
          trace[i].type \in {"onRetry", "wait", "resumed"} =>
             trace[i].attempt < config.maxRetries

\* two failures with attempts remaining, then the failure of the last attempt
C6_Witness ==
    /\ pc = "thrown"
    /\ config.maxRetries = 3
    /\ config.onRetry = "custom"
    /\ Len(ObserverCalls) = 2
    /\ Len(WaitsElapsed) = 2
    /\ trace[Len(trace)].type = "rejected"

(***************************************************************************)
(* C7. retryWithExponentialBackoff(op, 3, 100) where op fails twice and    *)
(* then succeeds waits 100 + 200 = 300 ms in total before the success and  *)
(* returns op's result. In general, when op fails m < maxRetries times and *)
(* then succeeds, the total waited is the sum of the delays of attempts    *)
(* 1..m, and nothing is waited after the success.                          *)
(***************************************************************************)
C7_TotalDelay ==
    pc = "returned" =>
        LET m == Len(Rejections)
        IN  /\ m < config.maxRetries
            /\ Len(WaitsElapsed) = m
            /\ Len(WaitsStarted) = m
            /\ SumMs(WaitsElapsed) = SpecifiedTotal(m, config.delay, config.backoff)
            /\ trace[Len(trace)].type = "fulfilled"
            /\ result = trace[Len(trace)].val
            /\ (entry = "retryWithExponentialBackoff" /\ options.maxRetries = 3
                  /\ options.delay = 100 /\ m = 2) => SumMs(WaitsElapsed) = 300
            /\ entry = "retryWithExponentialBackoff" =>
                  SumMs(WaitsElapsed) = config.delay * ((2 ^ m) - 1)

C7_Witness ==
    /\ entry = "retryWithExponentialBackoff"
    /\ options.maxRetries = 3
    /\ options.delay = 100
    /\ pc = "returned"
    /\ Len(Rejections) = 2
    /\ SumMs(WaitsElapsed) = 300
    /\ result \in SuccessValues

(***************************************************************************)
(* MCPContextManager: what a state of the recorder shows.                  *)
(***************************************************************************)
Range(seq) == {seq[i] : i \in 1 .. Len(seq)}
StepNumbersOf(steps) == [i \in 1 .. Len(steps) |-> steps[i].stepNumber]
TerminalStatuses == {"completed", "failed"}

(***************************************************************************)
(* C8. Within one recorder the i-th call of startStep returns ordinal i:   *)
(* ordinals start at 1, increase strictly and are never reused, and the    *)
(* recorded steps carry the ordinals 1..N without gaps or duplicates,      *)
(* after any interleaving of startStep, completeStep and failStep (and of  *)
(* the other methods), however many steps have failed or completed.        *)
(***************************************************************************)
C8_StepOrdinals ==
    /\ issued = OneTo(Len(issued))
    /\ StepNumbersOf(context.steps) = OneTo(Len(issued))
    /\ currentStepNumber = Len(issued)

\* a second step started after the first one had failed
C8_Witness ==
    /\ issued = <<1, 2>>
    /\ context.steps[1].status = "failed"
    /\ context.steps[2].status = "in-progress"

(***************************************************************************)
(* C9. completeStep or failStep called with an ordinal that startStep      *)
(* never issued is a silent no-op: the call does not throw, changes no     *)
(* step, and leaves the rest of the recorded context (errors, apiCalls,    *)
(* assertions, screenshots, metrics, metadata) unchanged.                  *)
(***************************************************************************)
C9_UnknownOrdinalNoOp ==
    [][\A n \in StepNumbers \ Range(issued) :
          (\/ \E d \in Durations, m \in StepMetadata : completeStep(n, d, m)
           \/ \E e \in ErrorMessages, m \in StepMetadata : failStep(n, e, m))
          => (context' = context /\ raised' = "none")]_vars

(***************************************************************************)
(* C10. completeStep or failStep on a step that is already completed or    *)
(* failed does not throw and overwrites the step's terminal fields, last   *)
(* write wins: after completeStep(n, d) the step is 'completed' with       *)
(* duration d and carries no error of an earlier failStep; after           *)
(* failStep(n, e) the step is 'failed' with error e.                       *)
(***************************************************************************)
C10_LastWriteWins ==
    [][\A i \in 1 .. Len(context.steps) :
          context.steps[i].status \in TerminalStatuses =>
             LET n == context.steps[i].stepNumber
             IN  /\ \A d \in Durations, m \in StepMetadata :
                       completeStep(n, d, m) =>
                          /\ raised' = "none"
                          /\ context'.steps[i].status = "completed"
                          /\ context'.steps[i].duration = d
                          /\ context'.steps[i].error = Undefined
                 /\ \A e \in ErrorMessages, m \in StepMetadata :
                       failStep(n, e, m) =>
                          /\ raised' = "none"
                          /\ context'.steps[i].status = "failed"
                          /\ context'.steps[i].error = e]_vars

(***************************************************************************)
(* MCPContextManager: calls seen as steps of a behaviour.                  *)
(***************************************************************************)
\* this step is a call of saveContext
SaveCall == saves' = saves + 1
\* this step is a call of one of the other methods (the mutators)
MutatorCall == calls' = calls + 1 /\ saves' = saves

IsPrefix(old, new) == Len(new) >= Len(old) /\ SubSeq(new, 1, Len(old)) = old

(***************************************************************************)
(* C11. After saveContext (finalize) has completed the recorder is         *)
(* read-only: any later call of startStep, completeStep, failStep,         *)
(* addAPICall, addAssertion, addError, addScreenshot, recordPageLoadTime   *)
(* or updateMetadata does not throw and leaves the context unchanged.      *)
(***************************************************************************)
C11_ReadOnlyAfterFinalize ==
    [][(saves >= 1 /\ MutatorCall) => (context' = context /\ raised' = "none")]_vars

(***************************************************************************)
(* C12. A second saveContext on the same recorder produces no second       *)
(* artifact: after any number of saveContext calls there is exactly one    *)
(* artifact file of the recorder, at its contextFilePath, once a write has *)
(* succeeded (and none as long as every write has failed).                 *)
(***************************************************************************)
C12_OneArtifact ==
    /\ written >= 1 => DOMAIN files = {contextFilePath}
    /\ written = 0 => DOMAIN files = {}
    /\ written <= saves

\* two saves at different times, both written
C12_Witness ==
    /\ saves = 2
    /\ written = 2
    /\ Cardinality(DOMAIN files) = 1
    /\ contextFile.metadata.completedAt > contextFile.metadata.duration + ClockStart

(***************************************************************************)
(* C13. In the artifact saveContext writes, metadata.completedAt is the    *)
(* time of that saveContext call and performance.totalDuration equals      *)
(* completedAt minus startedAt.                                            *)
(***************************************************************************)
C13_StampedArtifact ==
    [][/\ (SaveCall /\ written' = written + 1) =>
             /\ contextFilePath \in DOMAIN files'
             /\ files'[contextFilePath].metadata.completedAt = now
       /\ \A p \in DOMAIN files' :
             files'[p].performance.totalDuration =
                files'[p].metadata.completedAt - files'[p].metadata.startedAt]_vars

\* an artifact written one millisecond after the start of the run
C13_Witness ==
    /\ written >= 1
    /\ contextFile.metadata.completedAt = ClockStart + 1
    /\ contextFile.performance.totalDuration = 1

(***************************************************************************)
(* C19. The recorder's log is append-only: no method removes or reorders   *)
(* an entry of steps, apiCalls, assertions, errors or screenshots. In      *)
(* every step the lengths of these lists do not decrease and the existing  *)
(* entries keep their position (a step keeps its ordinal, action,          *)
(* description and timestamp; the entries of the other lists are           *)
(* unchanged).                                                             *)
(***************************************************************************)
C19_AppendOnly ==
    [][/\ Len(context'.steps) >= Len(context.steps)
       /\ \A i \in 1 .. Len(context.steps) :
             /\ context'.steps[i].stepNumber = context.steps[i].stepNumber
             /\ context'.steps[i].action = context.steps[i].action
             /\ context'.steps[i].description = context.steps[i].description
             /\ context'.steps[i].timestamp = context.steps[i].timestamp
       /\ IsPrefix(context.apiCalls, context'.apiCalls)
       /\ IsPrefix(context.assertions, context'.assertions)
       /\ IsPrefix(context.errors, context'.errors)
       /\ IsPrefix(context.screenshots, context'.screenshots)]_vars

\* two errors recorded at different times and a step
C19_Witness ==
    /\ Len(context.errors) = 2
    /\ context.errors[1] # context.errors[2]
    /\ Len(context.steps) = 1

(***************************************************************************)
(* C15. End to end: a recorder that started three steps, completed two,    *)
(* failed one with 'network timeout', logged one API call with status 500  *)
(* and was then finalized writes an artifact whose metadata status         *)
(* reflects the failed run, whose errors list has exactly one entry        *)
(* referencing the failed step's ordinal, and whose apiCalls list has      *)
(* exactly one entry with responseStatus 500.                              *)
(***************************************************************************)
\* the logs of the artifact of the run
ScenarioArtifactLogs ==
    (ScenarioRecorded /\ written = 1) =>
        /\ Len(contextFile.errors) = 1
        /\ contextFile.errors[1].message = "network timeout"
        /\ \E i \in 1 .. Len(contextFile.steps) :
              /\ contextFile.steps[i].status = "failed"
              /\ contextFile.errors[1].step = contextFile.steps[i].stepNumber
        /\ Len(contextFile.apiCalls) = 1
        /\ contextFile.apiCalls[1].responseStatus = 500

C15_EndToEndArtifact ==
    /\ ScenarioArtifactLogs
    /\ (ScenarioRecorded /\ written = 1) => contextFile.metadata.status = "failed"

(***************************************************************************)
(* C17. getContext returns a read-only copy: once it has returned, a       *)
(* later method call on the recorder does not change what the returned     *)
(* snapshot shows, and a change its holder makes to the snapshot does not  *)
(* change the recorder's context.                                          *)
(***************************************************************************)
C17_SnapshotIsolated ==
    [][SnapshotTaken =>
          /\ (calls' = calls + 1) => SnapshotView' = SnapshotView
          /\ (edits' = edits + 1) => context' = context]_vars

(***************************************************************************)
(* The harness: each recorder and the test it was created for.             *)
(***************************************************************************)
Recorders == DOMAIN recorders
TestOf(r) == recorders[r].context.metadata.testId
RecorderFailures == {"MCPContextManager: mkdir failed"}

(***************************************************************************)
(* C14. A persistence failure of the recorder (creating a directory or     *)
(* writing the file fails) is caught and logged and never propagates:      *)
(* neither constructing the recorder, nor saveContext, nor                 *)
(* cleanupMCPContext throws because of it, so no test is failed by one.    *)
(***************************************************************************)
C14_PersistenceFailureContained ==
    \A t \in Tests : thrown[t] \notin RecorderFailures

(***************************************************************************)
(* C16. Each run is persisted to a uniquely named artifact: two distinct   *)
(* recorders, also those of runs with the same test name created           *)
(* concurrently (the same test in two browser projects), never write to    *)
(* the same artifact path.                                                 *)
(***************************************************************************)
C16_UniqueArtifactPaths ==
    \A i, j \in Recorders :
        (i # j /\ recorders[i].written > 0 /\ recorders[j].written > 0)
            => recorders[i].contextFilePath # recorders[j].contextFilePath

(***************************************************************************)
(* C18. Ownership of recorders: at every moment the registry of a process  *)
(* holds at most one recorder per test id; the recorders of different      *)
(* tests are distinct, and a step of one test changes no recorder but its  *)
(* own; once cleanupMCPContext has completed for a test no registry holds  *)
(* that test's recorder.                                                   *)
(***************************************************************************)
RegistryOwnership ==
    /\ \A p \in Processes : \A e1, e2 \in registry[p] :
          e1[1] = e2[1] => e1 = e2
    /\ \A p1, p2 \in Processes : \A e1 \in registry[p1], e2 \in registry[p2] :
          /\ e1[2] \in Recorders
          /\ TestOf(e1[2]) = e1[1]
          /\ e1[1] # e2[1] => e1[2] # e2[2]
    /\ \A t \in Tests : phase[t] = "done" =>
          \A p \in Processes : RegistryGet(registry[p], t) = {}

C18_RecorderOwnership ==
    [][/\ RegistryOwnership'
       /\ \A r \in Recorders :
             recorders'[r] # recorders[r] => phase'[TestOf(r)] # phase[TestOf(r)]]_vars

\* one test cleaned up after passing while the other, failed, runs in
\* another process with its error captured in its own recorder
C18_Witness ==
    \E t, u \in Tests :
        /\ workerOf[t] # workerOf[u]
        /\ phase[t] = "done" /\ verdict[t] = "passed"
        /\ phase[u] = "cleanup" /\ verdict[u] = "failed"
        /\ getMCPContext(t) = {}
        /\ \E r \in getMCPContext(u) : Len(recorders[r].context.errors) = 1
        /\ \E r \in Recorders :
              TestOf(r) = t /\ recorders[r].saves = 1
                            /\ recorders[r].context.errors = <<>>

(***************************************************************************)
(* C20. In the harness lifecycle (mcpContext fixture, test body,           *)
(* afterEach, cleanupMCPContext, global teardown) every recorder created   *)
(* by initializeMCPContext is persisted by the end of the run, and         *)
(* persisted exactly once, and that save happens after the failure error   *)
(* and failure screenshot captured in afterEach were added, so the         *)
(* artifact contains them.                                                 *)
(***************************************************************************)
\* no recorder is saved twice, a recorder is saved once its test's cleanup
\* has completed, and what it writes holds the captured failure
SavedAfterCapture ==
    \A r \in Recorders :
        /\ recorders[r].saves <= 1
        /\ phase[TestOf(r)] = "done" => recorders[r].saves = 1
        /\ recorders[r].written = 1 =>
              /\ recorders[r].artifact.errors = recorders[r].context.errors
              /\ recorders[r].artifact.screenshots = recorders[r].context.screenshots
              /\ verdict[TestOf(r)] = "failed" =>
                    Len(recorders[r].artifact.errors) = 1

C20_EveryRecorderPersistedOnce ==
    /\ SavedAfterCapture
    /\ tornDown =>
          \A r \in Recorders :
              /\ recorders[r].written = 1
              /\ recorders[r].contextFilePath \in DOMAIN files
              /\ files[recorders[r].contextFilePath] = recorders[r].artifact

(***************************************************************************)
(* C21. The number of steps stored in a recorder never exceeds             *)
(* config.maxContextSize (default 1000, 'Max steps to store'), after any   *)
(* sequence of startStep calls.                                            *)
(***************************************************************************)
C21_StepsWithinMaxContextSize ==
    Len(context.steps) <= mcpConfig.maxContextSize

(***************************************************************************)
(* C25. In every reachable state of an enabled recorder, each step whose   *)
(* status is 'failed' has at least one entry in errors whose step field    *)
(* equals that step's ordinal.                                             *)
(***************************************************************************)
C25_FailedStepHasError ==
    mcpConfig.enabled =>
        \A i \in 1 .. Len(context.steps) :
            context.steps[i].status = "failed" =>
                \E k \in 1 .. Len(context.errors) :
                    context.errors[k].step = context.steps[i].stepNumber

\* the second of two steps has failed, after an error without a step
C25_Witness ==
    /\ Len(context.steps) = 2
    /\ context.steps[2].status = "failed"
    /\ context.steps[1].status = "in-progress"
    /\ Len(context.errors) >= 1
    /\ context.errors[Len(context.errors)].step = 2

(***************************************************************************)
(* C26. In the artifact written by saveContext, metadata.duration equals   *)
(* performance.totalDuration (both are the run's duration, completedAt     *)
(* minus startedAt), including on the first save of a recorder.            *)
(***************************************************************************)
C26_DurationIsTotalDuration ==
    \A p \in DOMAIN files :
        files[p].metadata.duration = files[p].performance.totalDuration

(***************************************************************************)
(* C30. A failure of the onRetry observer does not change the retry        *)
(* outcome: if onRetry throws while attempts remain, retry still waits and *)
(* performs the remaining attempts, and what it finally returns or rejects *)
(* with is determined by the operation's attempts only: the value of the   *)
(* attempt that fulfilled, or, after maxRetries rejected attempts, the     *)
(* value line 216 makes of the last rejection.                             *)
(***************************************************************************)
C30_ObserverFailureIgnored ==
    /\ pc = "returned" =>
          /\ Len(Fulfilments) = 1
          /\ result = Fulfilments[1].val
    /\ pc = "thrown" =>
          /\ Fulfilments = <<>>
          /\ Len(Rejections) = (IF config.maxRetries > 0 THEN config.maxRetries ELSE 0)
          /\ result = ThrownValue(IF Rejections = <<>> THEN "null"
                                  ELSE Rejections[Len(Rejections)].val)

(***************************************************************************)
(* ApiCapture: the calls of every ApiCapture object.                       *)
(***************************************************************************)
Answered(apiCalls) == {i \in 1 .. Len(apiCalls) : apiCalls[i].status # UndefinedNumber}
AllowedInFlight == {req \in inFlight : req.method \in AllowedMethods}

(***************************************************************************)
(* C22. For a test that uses the apiCapture fixture the captured API calls *)
(* are saved exactly once (afterEach does not save again what the fixture  *)
(* saves), for every order in which the fixture and the hooks run, and the *)
(* file left on disk for the test contains the calls captured during the   *)
(* test rather than an emptied list.                                       *)
(***************************************************************************)
C22_FixtureSavesOnce ==
    (usesFixture /\ capturePhase = "done") =>
        /\ apiSaveCalls = 1
        /\ apiWrites # <<>> =>
              apiWrites[Len(apiWrites)].apiCalls = captures[fixtureCapture].apiCalls

(***************************************************************************)
(* C27. ApiCapture attaches every observed response to the captured call   *)
(* of the request that produced it: for every interleaving of request and  *)
(* response events, also with several requests of the same URL and method  *)
(* in flight, each response fills the status of exactly one captured call, *)
(* no call that has a status is overwritten, and the call filled is the    *)
(* one whose request the response answers.                                 *)
(***************************************************************************)
C27_ResponseFillsItsCall ==
    \A c \in DOMAIN captures :
        LET apiCalls == captures[c].apiCalls
        IN  /\ Cardinality(Answered(apiCalls)) =
                  Len(apiCalls) - Cardinality(AllowedInFlight)
            /\ \A i \in Answered(apiCalls) : apiCalls[i].answered = apiCalls[i].request

(***************************************************************************)
(* C28. Every API call captured by ApiCapture for which a response was     *)
(* observed has its duration recorded, equal to the response time minus    *)
(* the start time stored for its request.                                  *)
(***************************************************************************)
C28_DurationRecorded ==
    \A c \in DOMAIN captures :
        \A i \in Answered(captures[c].apiCalls) :
            LET call == captures[c].apiCalls[i]
            IN  /\ call.duration # UndefinedNumber
                /\ call.duration = call.respondedAt - call.timestamp

(***************************************************************************)
(* UserStorage: the saveUser calls of the register tests.                  *)
(***************************************************************************)
Succeeded(log) == {i \in 1 .. Len(log) : log[i] = "ok"}
AllRegistered == \A r \in RegisterTests : reg[r].pc = "done"
NoSaveFailed == \A r \in RegisterTests : Succeeded(reg[r].log) = 1 .. Len(reg[r].log)

(***************************************************************************)
(* C23. In one run of the register test the generated user is appended to  *)
(* the user store at most once, whichever of the three save attempts       *)
(* (before registration, in the catch block, in the finally block) succeed *)
(* or fail and whether or not registration throws; a later attempt is made *)
(* only if no earlier attempt succeeded.                                   *)
(***************************************************************************)
C23_UserSavedAtMostOnce ==
    \A r \in RegisterTests :
        /\ Cardinality(Succeeded(reg[r].log)) <= 1
        /\ \A i \in Succeeded(reg[r].log) : i = Len(reg[r].log)

(***************************************************************************)
(* C29. UserStorage.saveUser loses no update: after any interleaving of    *)
(* saveUser calls made by concurrently running test workers that all       *)
(* return without error, users.json contains every saved user and          *)
(* getLatestUser returns the user of the last completed save.              *)
(***************************************************************************)
C29_NoLostUpdate ==
    (AllRegistered /\ NoSaveFailed) =>
        /\ \A i \in 1 .. Len(completed) : completed[i] \in Range(usersFile)
        /\ completed # <<>> =>
              HasLatestUser /\ getLatestUser = completed[Len(completed)]

(***************************************************************************)
(* PerformanceHelper: the promise of measureApiResponseTime.               *)
(***************************************************************************)
\* the events that can settle the promise: a matching response, the timeout
Settling == {i \in 1 .. Len(responseLog) :
                responseLog[i].kind = "timeout" \/ responseLog[i].matches}
FirstSettling == CHOOSE i \in Settling : \A j \in Settling : i <= j

(***************************************************************************)
(* C24. The promise returned by measureApiResponseTime settles exactly     *)
(* once, for every interleaving of response events and the timeout: with   *)
(* the elapsed time of the first matching response if one arrives before   *)
(* the timeout, otherwise with null at the timeout; further matching       *)
(* responses, and a matching response after the timeout, have no effect.   *)
(***************************************************************************)
C24_SettlesOnce ==
    /\ resolveCalls <= 1
    /\ timerFired => promiseState = "fulfilled"
    /\ IF Settling = {}
       THEN promiseState = "pending" /\ resolveCalls = 0
       ELSE /\ promiseState = "fulfilled"
            /\ resolveCalls = 1
            /\ promiseValue =
                  IF responseLog[FirstSettling].kind = "timeout"
                  THEN Null
                  ELSE responseLog[FirstSettling].at - measureStartTime

\* a matching response came first, some time after the call; another
\* matching response and the timeout came after it
C24_Witness ==
    /\ timerFired
    /\ promiseValue > 0
    /\ \E i, j \in Settling :
          i < j /\ responseLog[i].matches /\ responseLog[j].matches

=============================================================================
